---- MODULE Spec2Model ----
(***************************************************************************)
(* A model of vssh (src/src/bin/vssh.rs): the prompt loop of main, the     *)
(* dispatcher process_next_line, the single-command executor run_command,  *)
(* the parser parse_command and the pipeline orchestrator                  *)
(* execute_pipeline, together with the child processes they fork.          *)
(*                                                                         *)
(* Text is a sequence of one-character strings, so that trim, split,       *)
(* split_whitespace, ends_with, pop and join are computed, not assumed.    *)
(* A descriptor of a channel is <<"pipe", c, "r">> or <<"pipe", c, "w">>,  *)
(* c being the index of the channel in pipe_ends (0-based as in the code). *)
(* pipe() hands out owned descriptors (the code borrows them with          *)
(* as_raw_fd and binds them by ref), so a descriptor still owned when      *)
(* pipe_ends goes out of scope is closed by its destructor.                *)
(***************************************************************************)
EXTENDS Naturals, Sequences, FiniteSets, TLC

\* ------------------------------------------------------------- bounds
\* An input line is the concatenation of at most MaxPieces pieces.
MaxPieces == 3
\* Lines with more than MaxStages pipeline segments are not fed to the loop.
MaxStages == 3
\* The same, for the lines of the specification with fairness.
MaxLivePieces == 2
\* A text handed to parse_command on its own has at most MaxTextPieces pieces.
MaxTextPieces == 4

\* ------------------------------------------------------------- text
None == <<>>
Some(x) == <<x>>

\* char::is_whitespace, on the characters the model's lines are made of
IsWhitespace(c) == c \in {" ", "\n"}

RECURSIVE TrimStart(_)
TrimStart(s) ==
    IF s # <<>> /\ IsWhitespace(Head(s)) THEN TrimStart(Tail(s)) ELSE s

RECURSIVE TrimEnd(_)
TrimEnd(s) ==
    IF s # <<>> /\ IsWhitespace(s[Len(s)])
    THEN TrimEnd(SubSeq(s, 1, Len(s) - 1))
    ELSE s

\* str::trim
Trim(s) == TrimEnd(TrimStart(s))

\* str::ends_with(char)
EndsWith(s, c) == s # <<>> /\ s[Len(s)] = c

\* str::starts_with(&str)
StartsWith(s, prefix) ==
    Len(s) >= Len(prefix) /\ SubSeq(s, 1, Len(prefix)) = prefix

\* str::contains(char)
Contains(s, c) == \E k \in 1..Len(s) : s[k] = c

\* String::pop: drops the last character
Pop(s) == SubSeq(s, 1, Len(s) - 1)

RECURSIVE TrimEndMatches(_, _)
\* str::trim_end_matches(char): drops every trailing occurrence of c
TrimEndMatches(s, c) ==
    IF EndsWith(s, c) THEN TrimEndMatches(Pop(s), c) ELSE s

\* index of the first occurrence of c in s
FirstIndex(s, c) == CHOOSE k \in 1..Len(s) : s[k] = c /\ \A j \in 1..(k - 1) : s[j] # c

RECURSIVE Split(_, _)
\* str::split(char): the pieces between the separators, empty pieces included
Split(s, c) ==
    IF ~Contains(s, c) THEN <<s>>
    ELSE LET k == FirstIndex(s, c)
         IN  <<SubSeq(s, 1, k - 1)>> \o Split(SubSeq(s, k + 1, Len(s)), c)

\* length of the maximal whitespace-free prefix of s
RECURSIVE TokenLen(_)
TokenLen(s) ==
    IF s = <<>> \/ IsWhitespace(Head(s)) THEN 0 ELSE 1 + TokenLen(Tail(s))

RECURSIVE SplitWhitespace(_)
\* str::split_whitespace: the maximal whitespace-free runs, in order
SplitWhitespace(s) ==
    LET t == TrimStart(s)
    IN  IF t = <<>> THEN <<>>
        ELSE LET k == TokenLen(t)
             IN  <<SubSeq(t, 1, k)>> \o SplitWhitespace(SubSeq(t, k + 1, Len(t)))

RECURSIVE JoinTight(_)
\* the tokens one after the other, nothing between them
JoinTight(tokens) ==
    IF tokens = <<>> THEN <<>> ELSE tokens[1] \o JoinTight(Tail(tokens))

RECURSIVE Join(_)
\* [&str]::join(" ")
Join(tokens) ==
    IF tokens = <<>> THEN <<>>
    ELSE IF Len(tokens) = 1 THEN tokens[1]
    ELSE tokens[1] \o <<" ">> \o Join(Tail(tokens))

\* ------------------------------------------------------------- parsing
RECURSIVE ParseLoopKeepsLoneOperator(_, _, _, _)
\* the loop, were an operator without a following token pushed as a word
ParseLoopKeepsLoneOperator(tokens, token_combine, input, output) ==
    IF tokens = <<>>
    THEN [command |-> Join(token_combine), input |-> input, output |-> output]
    ELSE LET part == Head(tokens)
             rest == Tail(tokens)
         IN  IF part \in {<<"<">>, <<">">>} /\ rest # <<>>
             THEN IF part = <<"<">>
                  THEN ParseLoopKeepsLoneOperator(Tail(rest), token_combine,
                                                  Some(Head(rest)), output)
                  ELSE ParseLoopKeepsLoneOperator(Tail(rest), token_combine,
                                                  input, Some(Head(rest)))
             ELSE ParseLoopKeepsLoneOperator(rest, Append(token_combine, part),
                                             input, output)

RECURSIVE ParseLoopPathNotOperator(_, _, _, _)
\* the loop, were an operator to take the next token only if it is a word
ParseLoopPathNotOperator(tokens, token_combine, input, output) ==
    IF tokens = <<>>
    THEN [command |-> Join(token_combine), input |-> input, output |-> output]
    ELSE LET part == Head(tokens)
             rest == Tail(tokens)
             takes == rest # <<>> /\ Head(rest) \notin {<<"<">>, <<">">>}
         IN  IF part = <<"<">>
             THEN IF takes
                  THEN ParseLoopPathNotOperator(Tail(rest), token_combine,
                                                Some(Head(rest)), output)
                  ELSE ParseLoopPathNotOperator(rest, token_combine, input, output)
             ELSE IF part = <<">">>
             THEN IF takes
                  THEN ParseLoopPathNotOperator(Tail(rest), token_combine,
                                                input, Some(Head(rest)))
                  ELSE ParseLoopPathNotOperator(rest, token_combine, input, output)
             ELSE ParseLoopPathNotOperator(rest, Append(token_combine, part),
                                           input, output)

RECURSIVE ParseLoop(_, _, _, _)
\* the while-let loop of parse_command over the remaining tokens
ParseLoop(tokens, token_combine, input, output) ==
    IF tokens = <<>>
    THEN [command |-> Join(token_combine), input |-> input, output |-> output]
    ELSE LET part == Head(tokens)
             rest == Tail(tokens)
         IN  IF part = <<"<">>
             THEN IF rest # <<>>
                  THEN ParseLoop(Tail(rest), token_combine, Some(Head(rest)), output)
                  ELSE ParseLoop(rest, token_combine, input, output)
             ELSE IF part = <<">">>
             THEN IF rest # <<>>
                  THEN ParseLoop(Tail(rest), token_combine, input, Some(Head(rest)))
                  ELSE ParseLoop(rest, token_combine, input, output)
             ELSE ParseLoop(rest, Append(token_combine, part), input, output)

parse_command(command) == ParseLoop(SplitWhitespace(command), <<>>, None, None)

\* externalize: the argument vector handed to execvp
externalize(command) == SplitWhitespace(command)

\* ------------------------------------------------------------- run_command text
\* the trimmed command line of run_command
RcTrimmed(command_line) == Trim(command_line)

\* is_background of run_command: the trimmed line ends with the marker
RcIsBackgroundNever(command_line) == FALSE
RcIsBackground(command_line) == EndsWith(RcTrimmed(command_line), "&")

\* the text run_command hands to parse_command: marker popped, trimmed again
RcCommandText(command_line) ==
    IF RcIsBackground(command_line)
    THEN Trim(Pop(RcTrimmed(command_line)))
    ELSE RcTrimmed(command_line)

RcParsed(command_line) == parse_command(RcCommandText(command_line))

\* ------------------------------------------------------------- execute_pipeline text
TrimEach(segs) == [k \in 1..Len(segs) |-> Trim(segs[k])]

\* commands: the line split on '|', each segment trimmed
SplitPipe(command_line) == TrimEach(Split(command_line, "|"))

\* the number of channels the first loop allocates
NumPipesOnePerStage(num_commands) == num_commands
NumPipes(num_commands) == num_commands - 1

\* (command, input_file, output_file) of stage i (0-based), before the marker
\* is looked at: the first and the last segment go through parse_command
StageParsed(commands, i) ==
    LET num_commands == Len(commands)
        segment == commands[i + 1]
    IN  IF i = 0 THEN parse_command(segment)
        ELSE IF i = num_commands - 1 THEN parse_command(segment)
        ELSE [command |-> segment, input |-> None, output |-> None]

\* the test that guards the stripping of the marker in the spawn loop
StageStrips(commands, i) ==
    i = Len(commands) - 1 /\ EndsWith(StageParsed(commands, i).command, "&")

\* command of stage i as the child of stage i sees it
StageCommand(commands, i) ==
    IF StageStrips(commands, i)
    THEN Trim(TrimEndMatches(StageParsed(commands, i).command, "&"))
    ELSE StageParsed(commands, i).command

\* is_background of execute_pipeline, taken from the last raw segment
PipelineIsBackground(commands) == EndsWith(Trim(commands[Len(commands)]), "&")

\* ------------------------------------------------------------- input lines
Pieces ==
    { <<"c", "d">>, <<"e", "x", "i", "t">>, <<"a">>, <<" ">>,
      <<"|">>, <<"&">>, <<"<">>, <<">">> }

RECURSIVE Flatten(_)
Flatten(ps) == IF ps = <<>> THEN <<>> ELSE Head(ps) \o Flatten(Tail(ps))

CountChar(s, c) == Cardinality({k \in 1..Len(s) : s[k] = c})

\* every line of at most n pieces and at most MaxStages segments
LinesOf(n) ==
    { l \in { Flatten(ps) : ps \in UNION { [1..k -> Pieces] : k \in 0..n } } :
        CountChar(l, "|") < MaxStages }

ShortLines == LinesOf(MaxPieces)

\* longer lines: full pipelines, redirections, the marker in several places
SampleLines ==
    { <<"a", " ", "|", " ", "a", " ", "|", " ", "a">>,
      <<"a", " ", "<", " ", "a", " ", "|", " ", "a", " ", "|", " ", "a", " ", ">", " ", "a">>,
      <<"a", " ", "|", " ", "a", " ", ">", " ", "&">>,
      <<"a", " ", "|", " ", "a", " ", "&", " ", ">", " ", "a">>,
      <<"a", " ", "|", " ", "a", " ", ">", " ", "a", " ", "&">>,
      <<"a", " ", "|", " ", "a", " ", "|", " ", "a", " ", "&">>,
      <<"a", " ", ">", " ", "a", " ", "|", " ", "a", " ", "<", " ", "a">>,
      <<"a", " ", "<", " ", "a", " ", ">", " ", "a">>,
      <<"a", " ", "<", " ", "a", " ", ">", " ", "a", " ", "&">>,
      <<"a", " ", "|", " ", "<", " ", "a", " ", "|", " ", "a">>,
      <<"a", " ", "|", " ", "a", " ", "&", " ", "&">> }

\* the lines typed at the prompt, without their newline
Lines == ShortLines \cup SampleLines

\* ------------------------------------------------------------- state
VARIABLES
    pc,                 \* where the engine process stands
    input_line,         \* the line main has read (with its newline)
    commands,           \* the trimmed segments execute_pipeline works on
    procs,              \* the processes forked for this line, by spawn order
    pipe_ends,          \* number of channels pushed on pipe_ends
    parent_open,        \* channel descriptors open in the engine process
    child_process_ids,  \* pids pushed by execute_pipeline (indices of procs)
    waited,             \* the waitpid calls of the engine: [pid, ok]
    diag,               \* what the engine has printed for this line
    result,             \* what run_command / execute_pipeline returned
    status,             \* what process_next_line returned
    parse_arg,          \* the text of a call of parse_command on its own
    parse_ret           \* what that call returned, None until it returns

vars == <<pc, input_line, commands, procs, pipe_ends, parent_open, child_process_ids,
          waited, diag, result, status, parse_arg, parse_ret>>

Pids == 1..Len(procs)

\* the line compared as it was read, newline included
untrimmed_line == input_line
trimmed_line == Trim(input_line)
num_commands == Len(commands)

ReadEnd(c) == <<"pipe", c, "r">>
WriteEnd(c) == <<"pipe", c, "w">>
Tty == <<"tty">>
File(path) == <<"file", path>>

\* the destructor of an owned descriptor: whatever is still owned is closed
DropLeak(fds) == fds
Drop(fds) == {}

\* close(read.as_raw_fd()); close(write.as_raw_fd()) over all of pipe_ends
CloseReadEndsOnly(fds, n) == fds \ { ReadEnd(c) : c \in 0..(n - 1) }
CloseNoEnd(fds, n) == fds
CloseAllEnds(fds, n) ==
    fds \ ({ ReadEnd(c) : c \in 0..(n - 1) } \cup { WriteEnd(c) : c \in 0..(n - 1) })

\* waitpid(pid, None) returns a status only for a child that has terminated
TerminatedNoHang(p) == TRUE
Terminated(p) == procs[p].pc = "exited"

\* the pid execute_pipeline reports for a background pipeline
FirstPid(ids) == ids[1]
ReportedPid(ids) == ids[Len(ids)]

\* a channel's writable end is open in process p (raw, or as its slot 1)
HoldsWrite(p, c) ==
    /\ procs[p].pc # "exited"
    /\ (WriteEnd(c) \in procs[p].raw \/ procs[p].slot1 = WriteEnd(c)
        \/ procs[p].slot0 = WriteEnd(c))

\* a read on slot 0 of p can return end-of-stream
EofOnStdin(p) ==
    \/ procs[p].slot0[1] # "pipe"
    \/ /\ procs[p].slot0[1] = "pipe"
       /\ WriteEnd(procs[p].slot0[2]) \notin parent_open
       /\ \A q \in Pids : ~HoldsWrite(q, procs[p].slot0[2])

Fresh ==
    /\ commands = <<>>
    /\ procs = <<>>
    /\ pipe_ends = 0
    /\ parent_open = {}
    /\ child_process_ids = <<>>
    /\ waited = <<>>
    /\ diag = <<>>
    /\ result = "none"
    /\ status = "none"

Init ==
    /\ pc = "prompt"
    /\ input_line = <<>>
    /\ Fresh
    /\ parse_arg = <<>>
    /\ parse_ret = None

\* ------------------------------------------------------------- main
\* read_line returned one of the lines of S
ReadFrom(S) ==
    /\ pc = "prompt"
    /\ \E l \in S : input_line' = l \o <<"\n">>
    /\ pc' = "dispatch"
    /\ UNCHANGED <<parse_arg, parse_ret,
                   commands, procs, pipe_ends, parent_open, child_process_ids, waited,
                   diag, result, status>>

ReadLine == ReadFrom(Lines)

\* read_line returned Ok(0) at end of input: the line is empty
ReadEof ==
    /\ pc = "prompt"
    /\ input_line' = <<>>
    /\ pc' = "dispatch"
    /\ UNCHANGED <<parse_arg, parse_ret,
                   commands, procs, pipe_ends, parent_open, child_process_ids, waited,
                   diag, result, status>>

\* read_line failed: message, continue
ReadError ==
    /\ pc = "prompt"
    /\ input_line' = <<>>
    /\ diag' = <<"Error reading the input">>
    /\ pc' = "loop_end"
    /\ UNCHANGED <<parse_arg, parse_ret,
                   commands, procs, pipe_ends, parent_open, child_process_ids, waited,
                   result, status>>

\* Ok(Status::Continue) => continue (and the continue after a read failure):
\* nothing of the finished line is kept, its processes are not tracked
LoopContinue ==
    /\ pc = "loop_end"
    /\ status \in {"Continue", "none"}
    /\ pc' = "prompt"
    /\ input_line' = <<>>
    /\ commands' = <<>>
    /\ procs' = <<>>
    /\ pipe_ends' = 0
    /\ parent_open' = parent_open
    /\ child_process_ids' = <<>>
    /\ waited' = <<>>
    /\ diag' = <<>>
    /\ result' = "none"
    /\ status' = "none"
    /\ UNCHANGED <<parse_arg, parse_ret>>

\* Ok(Status::Exit) => break
LoopBreak ==
    /\ pc = "loop_end"
    /\ status = "Exit"
    /\ pc' = "exited"
    /\ UNCHANGED <<parse_arg, parse_ret,
                   commands, input_line, procs, pipe_ends, parent_open, child_process_ids,
                   waited, diag, result, status>>

\* ------------------------------------------------------------- process_next_line
DispatchEmpty ==
    /\ pc = "dispatch"
    /\ trimmed_line = <<>>
    /\ status' = "Continue"
    /\ pc' = "loop_end"
    /\ UNCHANGED <<parse_arg, parse_ret,
                   commands, input_line, procs, pipe_ends, parent_open, child_process_ids,
                   waited, diag, result>>

DispatchExit ==
    /\ pc = "dispatch"
    /\ trimmed_line # <<>>
    /\ trimmed_line = <<"e", "x", "i", "t">>
    /\ status' = "Exit"
    /\ pc' = "loop_end"
    /\ UNCHANGED <<parse_arg, parse_ret,
                   commands, input_line, procs, pipe_ends, parent_open, child_process_ids,
                   waited, diag, result>>

IsCd(line) == StartsWith(line, <<"c", "d", " ">>)

\* the cd built-in; set_current_dir may fail
DispatchCd ==
    /\ pc = "dispatch"
    /\ trimmed_line # <<>>
    /\ trimmed_line # <<"e", "x", "i", "t">>
    /\ IsCd(trimmed_line)
    /\ LET parts == SplitWhitespace(trimmed_line)
       IN  IF Len(parts) < 2
           THEN diag' = <<"cd: missing argument">>
           ELSE \/ diag' = diag
                \/ diag' = <<"cd: failed">>
    /\ status' = "Continue"
    /\ pc' = "loop_end"
    /\ UNCHANGED <<parse_arg, parse_ret,
                   commands, input_line, procs, pipe_ends, parent_open, child_process_ids,
                   waited, result>>

\* the line goes to execute_pipeline, which splits it into commands
DispatchPipeline ==
    /\ pc = "dispatch"
    /\ trimmed_line # <<>>
    /\ trimmed_line # <<"e", "x", "i", "t">>
    /\ ~IsCd(trimmed_line)
    /\ Contains(trimmed_line, "|")
    /\ commands' = SplitPipe(trimmed_line)
    /\ pc' = "ep_pipe"
    /\ UNCHANGED <<parse_arg, parse_ret,
                   input_line, procs, pipe_ends, parent_open, child_process_ids,
                   waited, diag, result, status>>

DispatchCommand ==
    /\ pc = "dispatch"
    /\ trimmed_line # <<>>
    /\ trimmed_line # <<"e", "x", "i", "t">>
    /\ ~IsCd(trimmed_line)
    /\ ~Contains(trimmed_line, "|")
    /\ pc' = "rc_fork"
    /\ UNCHANGED <<parse_arg, parse_ret,
                   commands, input_line, procs, pipe_ends, parent_open, child_process_ids,
                   waited, diag, result, status>>

\* what the dispatcher does with the value an executor returned: an error is
\* printed with its category, and process_next_line returns Continue
\* the return to main, were an error of the executor not printed
DispatchedQuietly(res, category, printed) ==
    /\ result' = res
    /\ diag' = printed
    /\ status' = "Continue"
    /\ pc' = "loop_end"

\* the return to main, were an error of the executor to end the loop
DispatchedFatal(res, category, printed) ==
    /\ result' = res
    /\ diag' = IF res = "Err" THEN Append(printed, category) ELSE printed
    /\ status' = IF res = "Err" THEN "Exit" ELSE "Continue"
    /\ pc' = "loop_end"

Dispatched(res, category, printed) ==
    /\ result' = res
    /\ diag' = IF res = "Err" THEN Append(printed, category) ELSE printed
    /\ status' = "Continue"
    /\ pc' = "loop_end"

BackgroundNotice(pid) == <<"Starting background process", pid>>

\* the process fork() creates: a copy of the engine inside the executor
NewChild(kind, i, n, command, input_file, output_file, raw) ==
    [ kind |-> kind, stage |-> i, n |-> n,
      command |-> command, input_file |-> input_file, output_file |-> output_file,
      pc |-> "redirect", raw |-> raw, slot0 |-> Tty, slot1 |-> Tty,
      fail |-> "none", code |-> 0 ]

\* ------------------------------------------------------------- run_command (engine side)
RcFork ==
    /\ pc = "rc_fork"
    /\ LET parsed == RcParsed(trimmed_line)
       IN  procs' = Append(procs,
                NewChild("single", 0, 1, parsed.command, parsed.input,
                         parsed.output, {}))
    /\ pc' = "rc_parent"
    /\ UNCHANGED <<parse_arg, parse_ret,
                   commands, input_line, pipe_ends, parent_open, child_process_ids, waited,
                   diag, result, status>>

\* fork()? fails: the error goes to the dispatcher
RcForkFail ==
    /\ pc = "rc_fork"
    /\ Dispatched("Err", "Command error", diag)
    /\ UNCHANGED <<parse_arg, parse_ret,
                   commands, input_line, procs, pipe_ends, parent_open, child_process_ids,
                   waited>>

RcBackground ==
    /\ pc = "rc_parent"
    /\ RcIsBackground(trimmed_line)
    /\ Dispatched("Ok", "Command error", Append(diag, BackgroundNotice(Len(procs))))
    /\ UNCHANGED <<parse_arg, parse_ret,
                   commands, input_line, procs, pipe_ends, parent_open, child_process_ids,
                   waited>>

\* waitpid(child, None)? returns once the child has terminated
RcWait ==
    /\ pc = "rc_parent"
    /\ ~RcIsBackground(trimmed_line)
    /\ Terminated(Len(procs))
    /\ waited' = Append(waited, [pid |-> Len(procs), ok |-> TRUE])
    /\ Dispatched("Ok", "Command error", diag)
    /\ UNCHANGED <<parse_arg, parse_ret,
                   commands, input_line, procs, pipe_ends, parent_open, child_process_ids>>

\* waitpid(child, None)? fails (EINTR, ECHILD)
RcWaitFail ==
    /\ pc = "rc_parent"
    /\ ~RcIsBackground(trimmed_line)
    /\ waited' = Append(waited, [pid |-> Len(procs), ok |-> FALSE])
    /\ Dispatched("Err", "Command error", diag)
    /\ UNCHANGED <<parse_arg, parse_ret,
                   commands, input_line, procs, pipe_ends, parent_open, child_process_ids>>

\* ------------------------------------------------------------- execute_pipeline (engine side)
\* one iteration of the loop that pushes pipe()
EpPipe ==
    /\ pc = "ep_pipe"
    /\ pipe_ends < NumPipes(num_commands)
    /\ pipe_ends' = pipe_ends + 1
    /\ parent_open' = parent_open \cup {ReadEnd(pipe_ends), WriteEnd(pipe_ends)}
    /\ pc' = IF pipe_ends + 1 < NumPipes(num_commands) THEN "ep_pipe" ELSE "ep_fork"
    /\ UNCHANGED <<parse_arg, parse_ret,
                   commands, input_line, procs, child_process_ids, waited, diag, result,
                   status>>

\* pipe()? fails: early return, pipe_ends is dropped
EpPipeFail ==
    /\ pc = "ep_pipe"
    /\ pipe_ends < NumPipes(num_commands)
    /\ parent_open' = Drop(parent_open)
    /\ Dispatched("Err", "Pipeline error", diag)
    /\ UNCHANGED <<parse_arg, parse_ret,
                   commands, input_line, procs, pipe_ends, child_process_ids, waited>>

\* one iteration of the spawn loop, engine side: stage i is forked
EpFork ==
    /\ pc = "ep_fork"
    /\ Len(child_process_ids) < num_commands
    /\ LET i == Len(child_process_ids)
           parsed == StageParsed(commands, i)
       IN  /\ procs' = Append(procs,
                  NewChild("pipeline", i, num_commands, StageCommand(commands, i),
                           parsed.input, parsed.output, parent_open))
           /\ child_process_ids' = Append(child_process_ids, Len(procs) + 1)
           /\ pc' = IF i + 1 < num_commands THEN "ep_fork" ELSE "ep_close"
    /\ UNCHANGED <<parse_arg, parse_ret,
                   commands, input_line, pipe_ends, parent_open, waited, diag, result,
                   status>>

\* fork()? fails at stage i: early return, pipe_ends is dropped
EpForkFail ==
    /\ pc = "ep_fork"
    /\ Len(child_process_ids) < num_commands
    /\ parent_open' = Drop(parent_open)
    /\ Dispatched("Err", "Pipeline error", diag)
    /\ UNCHANGED <<parse_arg, parse_ret,
                   commands, input_line, procs, pipe_ends, child_process_ids, waited>>

\* the loop that consumes pipe_ends: both ends closed, then dropped
EpClose ==
    /\ pc = "ep_close"
    /\ parent_open' = Drop(CloseAllEnds(parent_open, pipe_ends))
    /\ pc' = "ep_closed"
    /\ UNCHANGED <<parse_arg, parse_ret,
                   commands, input_line, procs, pipe_ends, child_process_ids, waited, diag,
                   result, status>>

\* background: the notice, no wait
EpBackground ==
    /\ pc = "ep_closed"
    /\ PipelineIsBackground(commands)
    /\ Dispatched("Ok", "Pipeline error",
           IF child_process_ids # <<>>
           THEN Append(diag, BackgroundNotice(ReportedPid(child_process_ids)))
           ELSE diag)
    /\ UNCHANGED <<parse_arg, parse_ret,
                   commands, input_line, procs, pipe_ends, parent_open, child_process_ids,
                   waited>>

\* foreground: waitpid(processid, None)? on the next recorded pid; after the
\* last one execute_pipeline returns Ok and the dispatcher returns Continue
EpWait ==
    /\ pc = "ep_closed"
    /\ ~PipelineIsBackground(commands)
    /\ Len(waited) < Len(child_process_ids)
    /\ Terminated(child_process_ids[Len(waited) + 1])
    /\ waited' = Append(waited,
           [pid |-> child_process_ids[Len(waited) + 1], ok |-> TRUE])
    /\ LET last == Len(waited) + 1 = Len(child_process_ids)
       IN  /\ pc' = IF last THEN "loop_end" ELSE pc
           /\ result' = IF last THEN "Ok" ELSE result
           /\ status' = IF last THEN "Continue" ELSE status
    /\ UNCHANGED <<parse_arg, parse_ret,
                   commands, input_line, procs, pipe_ends, parent_open, child_process_ids,
                   diag>>

\* waitpid(processid, None)? fails: the ? returns the error at once
EpWaitFail ==
    /\ pc = "ep_closed"
    /\ ~PipelineIsBackground(commands)
    /\ Len(waited) < Len(child_process_ids)
    /\ waited' = Append(waited,
           [pid |-> child_process_ids[Len(waited) + 1], ok |-> FALSE])
    /\ Dispatched("Err", "Pipeline error", diag)
    /\ UNCHANGED <<parse_arg, parse_ret,
                   commands, input_line, procs, pipe_ends, parent_open, child_process_ids>>

\* ------------------------------------------------------------- the forked child
\* a ? in the child returns the error to the caller: the child is back in
\* process_next_line and then in the loop of main; pipe_ends is dropped
EscapedGoesOn(rec, why) == [rec EXCEPT !.pc = "exec", !.fail = why]
Escaped(rec, why) ==
    [rec EXCEPT !.pc = "escaped", !.fail = why, !.raw = Drop(@)]

\* the process is gone, and with it its descriptor table
Exited(rec, code) ==
    [rec EXCEPT !.pc = "exited", !.code = code, !.raw = {},
                !.slot0 = <<"closed">>, !.slot1 = <<"closed">>]

UsesInput(rec) ==
    (rec.kind = "single" \/ rec.stage = 0) /\ rec.input_file # None
UsesOutput(rec) ==
    (rec.kind = "single" \/ rec.stage = rec.n - 1) /\ rec.output_file # None

RedirectOutcomes(rec) ==
    {"ok"}
    \cup (IF UsesInput(rec) THEN {"in_open", "in_dup2", "in_close"} ELSE {})
    \cup (IF UsesOutput(rec) THEN {"out_open", "out_dup2", "out_close"} ELSE {})

\* the file redirections of the child: open, dup2 onto the slot, close
ChildRedirect(p) ==
    /\ procs[p].pc = "redirect"
    /\ \E o \in RedirectOutcomes(procs[p]) :
         LET rec == procs[p]
             wired == [rec EXCEPT
                 !.slot0 = IF UsesInput(rec) /\ o \notin {"in_open", "in_dup2"}
                           THEN File(rec.input_file[1]) ELSE @,
                 !.slot1 = IF UsesOutput(rec) /\ o \in {"ok", "out_close"}
                           THEN File(rec.output_file[1]) ELSE @]
         IN  procs' = [procs EXCEPT ![p] =
                 IF o = "ok"
                 THEN [wired EXCEPT !.pc = IF rec.kind = "pipeline"
                                           THEN "dup_pipes" ELSE "exec"]
                 ELSE Escaped(wired, IF o \in {"in_open", "out_open"}
                                     THEN "open" ELSE "dup2")]
    /\ UNCHANGED <<parse_arg, parse_ret,
                   commands, pc, input_line, pipe_ends, parent_open, child_process_ids,
                   waited, diag, result, status>>

\* the channel stage i reads from, pipe_ends[i - 1]
PrevPipeOwn(i) == i
PrevPipe(i) == i - 1
\* the channel stage i writes to, pipe_ends[i]
NextPipe(i) == i

DupOutcomes(rec) ==
    {"ok"}
    \cup (IF rec.stage > 0 THEN {"in_dup2"} ELSE {})
    \cup (IF rec.stage < rec.n - 1 THEN {"out_dup2"} ELSE {})

\* the channel wiring of a pipeline child: dup2 onto slot 0 and slot 1
ChildDupPipes(p) ==
    /\ procs[p].pc = "dup_pipes"
    /\ \E o \in DupOutcomes(procs[p]) :
         LET rec == procs[p]
             i == rec.stage
             wired == [rec EXCEPT
                 !.slot0 = IF i > 0 /\ o # "in_dup2" THEN ReadEnd(PrevPipe(i)) ELSE @,
                 !.slot1 = IF i < rec.n - 1 /\ o = "ok" THEN WriteEnd(NextPipe(i)) ELSE @]
         IN  procs' = [procs EXCEPT ![p] =
                 IF o = "ok" THEN [wired EXCEPT !.pc = "close_raw"]
                 ELSE Escaped(wired, "dup2")]
    /\ UNCHANGED <<parse_arg, parse_ret,
                   commands, pc, input_line, pipe_ends, parent_open, child_process_ids,
                   waited, diag, result, status>>

\* the child closes every raw channel descriptor (errors ignored)
ChildCloseRaw(p) ==
    /\ procs[p].pc = "close_raw"
    /\ procs' = [procs EXCEPT ![p] =
           [@ EXCEPT !.raw = CloseAllEnds(@, pipe_ends), !.pc = "exec"]]
    /\ UNCHANGED <<parse_arg, parse_ret,
                   commands, pc, input_line, pipe_ends, parent_open, child_process_ids,
                   waited, diag, result, status>>

\* externalize, exit(1) on an empty vector, execvp(...)?
ChildExec(p) ==
    /\ procs[p].pc = "exec"
    /\ IF externalize(procs[p].command) = <<>>
       THEN procs' = [procs EXCEPT ![p] = Exited([@ EXCEPT !.fail = "empty"], 1)]
       ELSE \/ procs' = [procs EXCEPT ![p].pc = "running"]
            \/ procs' = [procs EXCEPT ![p] = Escaped(@, "exec")]
    /\ UNCHANGED <<parse_arg, parse_ret,
                   commands, pc, input_line, pipe_ends, parent_open, child_process_ids,
                   waited, diag, result, status>>

\* the program the child has become terminates
ProgExit(p) ==
    /\ procs[p].pc = "running"
    /\ procs' = [procs EXCEPT ![p] = Exited(@, 0)]
    /\ UNCHANGED <<parse_arg, parse_ret,
                   commands, pc, input_line, pipe_ends, parent_open, child_process_ids,
                   waited, diag, result, status>>

\* a child that is back in the loop of main leaves it when it reads exit
EscapedExit(p) ==
    /\ procs[p].pc = "escaped"
    /\ procs' = [procs EXCEPT ![p] = Exited(@, 0)]
    /\ UNCHANGED <<parse_arg, parse_ret,
                   commands, pc, input_line, pipe_ends, parent_open, child_process_ids,
                   waited, diag, result, status>>

\* ------------------------------------------------------------- specification
Next ==
    \/ ReadLine
    \/ ReadEof
    \/ ReadError
    \/ LoopContinue
    \/ LoopBreak
    \/ DispatchEmpty
    \/ DispatchExit
    \/ DispatchCd
    \/ DispatchPipeline
    \/ DispatchCommand
    \/ RcFork
    \/ RcForkFail
    \/ RcBackground
    \/ RcWait
    \/ RcWaitFail
    \/ EpPipe
    \/ EpPipeFail
    \/ EpFork
    \/ EpForkFail
    \/ EpClose
    \/ EpBackground
    \/ EpWait
    \/ EpWaitFail
    \/ \E p \in Pids : ChildRedirect(p)
    \/ \E p \in Pids : ChildDupPipes(p)
    \/ \E p \in Pids : ChildCloseRaw(p)
    \/ \E p \in Pids : ChildExec(p)
    \/ \E p \in Pids : ProgExit(p)
    \/ \E p \in Pids : EscapedExit(p)

Spec == Init /\ [][Next]_vars

\* a program that exits once a read on its slot 0 returns end-of-stream
ProgExitAtEof(p) == p \in Pids /\ EofOnStdin(p) /\ ProgExit(p)

\* the lines that the dispatcher hands to execute_pipeline, among the sample
\* lines and the lines of at most MaxLivePieces pieces
PipelineLines ==
    { l \in LinesOf(MaxLivePieces) \cup SampleLines :
        Contains(Trim(l), "|") /\ ~IsCd(Trim(l)) }

ReadPipelineLine == ReadFrom(PipelineLines)

\* one pipeline, from the prompt to the return of execute_pipeline
PipelineNext ==
    \/ ReadPipelineLine
    \/ DispatchPipeline
    \/ EpPipe
    \/ EpPipeFail
    \/ EpFork
    \/ EpForkFail
    \/ EpClose
    \/ EpBackground
    \/ EpWait
    \/ EpWaitFail
    \/ \E p \in Pids : ChildRedirect(p)
    \/ \E p \in Pids : ChildDupPipes(p)
    \/ \E p \in Pids : ChildCloseRaw(p)
    \/ \E p \in Pids : ChildExec(p)
    \/ \E p \in Pids : ProgExit(p)
    \/ \E p \in Pids : EscapedExit(p)

\* The engine process keeps running, and so does every program that has seen
\* end-of-stream on its input: the processes are scheduled by the kernel.
LiveSpec ==
    /\ Init
    /\ [][PipelineNext]_vars
    /\ WF_vars(EpClose)
    /\ WF_vars(EpWait)
    /\ \A p \in 1..MaxStages : WF_vars(ProgExitAtEof(p))

\* ------------------------------------------------------------- claims
\* what the dispatcher makes of the line, read off the line itself
LineIsPipeline ==
    /\ trimmed_line # <<>>
    /\ trimmed_line # <<"e", "x", "i", "t">>
    /\ ~StartsWith(trimmed_line, <<"c", "d", " ">>)
    /\ CountChar(trimmed_line, "|") >= 1

LineIsSingle ==
    /\ trimmed_line # <<>>
    /\ trimmed_line # <<"e", "x", "i", "t">>
    /\ ~StartsWith(trimmed_line, <<"c", "d", " ">>)
    /\ CountChar(trimmed_line, "|") = 0

\* the number of segments of the line: one more than its '|' characters
NSegments == CountChar(trimmed_line, "|") + 1

\* the trimmed line ends with the background marker
LineEndsWithMarker == trimmed_line # <<>> /\ trimmed_line[Len(trimmed_line)] = "&"

\* C1: a forked child whose execvp failed has terminated with status 1; it is
\* never back in the caller (process_next_line, the loop of main).
C1_ExecFailureTerminatesChild ==
    \A p \in Pids :
        procs[p].fail = "exec" => (procs[p].pc = "exited" /\ procs[p].code = 1)

\* C2: when every pipe and fork of a line with N segments has succeeded, the
\* engine has allocated exactly N-1 channels and forked exactly N children,
\* the k-th for segment k; on the way it never exceeds either number.
C2_StagesAndChannels ==
    LineIsPipeline /\ pc # "dispatch" =>
        /\ pipe_ends <= NSegments - 1
        /\ Len(procs) <= NSegments
        /\ child_process_ids = [k \in 1..Len(procs) |-> k]
        /\ \A k \in Pids : procs[k].kind = "pipeline" /\ procs[k].stage = k - 1
        /\ (pc \in {"ep_close", "ep_closed"} \/ (pc = "loop_end" /\ result = "Ok")
            \/ (pc = "loop_end" /\ waited # <<>>)) =>
              /\ pipe_ends = NSegments - 1
              /\ Len(procs) = NSegments

\* C2's case: three stages, one of them empty, all spawned
C2_Witness ==
    /\ LineIsPipeline
    /\ pc = "ep_closed"
    /\ NSegments = 3
    /\ Len(procs) = 3
    /\ \E k \in 1..3 : commands[k] = <<>>

\* C3: whenever execute_pipeline has returned in the engine process, normally
\* or early, the engine holds no open channel descriptor.
C3_ParentHoldsNoChannel ==
    (pc \in {"ep_closed", "loop_end", "prompt", "dispatch", "exited"}) =>
        parent_open = {}

\* C3's case: an early return after a failed fork, channels allocated
C3_Witness ==
    /\ LineIsPipeline
    /\ pc = "loop_end"
    /\ result = "Err"
    /\ pipe_ends >= 1
    /\ Len(procs) >= 1
    /\ Len(procs) < NSegments

\* C4: a foreground pipeline that has returned with all its children spawned
\* has called waitpid on every recorded child, in spawn order.
C4_WaitsOnEveryChild ==
    (LineIsPipeline /\ ~LineEndsWithMarker /\ pc = "loop_end"
        /\ Len(child_process_ids) = NSegments) =>
        /\ Len(waited) = NSegments
        /\ \A k \in 1..NSegments : waited[k].pid = child_process_ids[k]

\* C5: for the line cd without an argument, the dispatcher prints the
\* missing-argument diagnostic, spawns nothing and returns Continue.
C5_CdWithoutArgument ==
    (trimmed_line = <<"c", "d">> /\ pc # "dispatch") =>
        /\ pc = "loop_end"
        /\ procs = <<>>
        /\ diag = <<"cd: missing argument">>
        /\ status = "Continue"

\* every stage of the pipeline is spawned and has replaced its image
AllStagesExecuted ==
    /\ LineIsPipeline
    /\ Len(procs) = NSegments
    /\ \A p \in Pids : procs[p].fail = "none" /\ procs[p].pc \in {"running", "exited"}

C6_NoStrayWriter ==
    (AllStagesExecuted /\ pc \in {"ep_closed", "loop_end"}) =>
        /\ \A c \in 0..(NSegments - 2) :
              /\ WriteEnd(c) \notin parent_open
              /\ \A p \in Pids :
                    HoldsWrite(p, c) =>
                        /\ procs[p].stage = c
                        /\ procs[p].slot1 = WriteEnd(c)
                        /\ procs[p].raw = {}
        /\ \A p \in Pids :
              (p > 1 /\ procs[p - 1].pc = "exited" /\ procs[p].pc = "running") =>
                  /\ procs[p].slot0 = ReadEnd(p - 2)
                  /\ EofOnStdin(p)

\* C6: once every stage has replaced its image and the engine has closed its
\* descriptors, the writable end of channel i is open in stage i alone, so a
\* stage whose predecessor has terminated can read end-of-stream; and a
\* foreground pipeline whose stages exit at end-of-stream returns.
C6_EofPropagates ==
    /\ []C6_NoStrayWriter
    /\ (AllStagesExecuted /\ ~LineEndsWithMarker /\ pc \in {"ep_close", "ep_closed"})
          ~> (pc = "loop_end")

\* C6's case: a three-stage foreground pipeline, every stage executed, has
\* been waited for and has returned
C6_Witness ==
    /\ AllStagesExecuted
    /\ ~LineEndsWithMarker
    /\ NSegments = 3
    /\ pc = "loop_end"
    /\ result = "Ok"
    /\ Len(waited) = 3

\* C7: a single command ending with the marker is never waited for; once
\* run_command has returned Ok, one child was forked and its pid was reported
\* exactly once, whether or not the child has terminated.
C7_BackgroundSingle ==
    (LineIsSingle /\ LineEndsWithMarker /\ pc # "dispatch") =>
        /\ waited = <<>>
        /\ Len(procs) <= 1
        /\ (pc = "loop_end" /\ result = "Ok") =>
              /\ Len(procs) = 1
              /\ diag = <<BackgroundNotice(1)>>
              /\ status = "Continue"
        /\ (pc = "loop_end" /\ result = "Err") => procs = <<>>

\* C7's case: run_command has returned while the child has not terminated
C7_Witness ==
    /\ LineIsSingle
    /\ LineEndsWithMarker
    /\ pc = "loop_end"
    /\ result = "Ok"
    /\ Len(procs) = 1
    /\ procs[1].pc = "running"

\* C8: a foreground single command returns Ok only after its one child has
\* terminated; a failed wait returns an error, which the dispatcher prints as
\* a command error, and the loop goes on.
C8_ForegroundSingle ==
    (LineIsSingle /\ ~LineEndsWithMarker /\ pc = "loop_end") =>
        /\ status = "Continue"
        /\ result = "Ok" =>
              /\ Len(procs) = 1
              /\ procs[1].pc = "exited"
              /\ waited = <<[pid |-> 1, ok |-> TRUE]>>
              /\ diag = <<>>
        /\ result = "Err" => diag = <<"Command error">>
        /\ (waited # <<>> /\ ~waited[1].ok) => result = "Err"

\* C8's case: the wait has failed while the child is still running
C8_Witness ==
    /\ LineIsSingle
    /\ ~LineEndsWithMarker
    /\ pc = "loop_end"
    /\ waited = <<[pid |-> 1, ok |-> FALSE]>>
    /\ procs[1].pc = "running"
    /\ diag = <<"Command error">>

\* the step that leaves the point after the parent's cleanup, background case
C9_Step ==
    (LineIsPipeline /\ LineEndsWithMarker /\ pc = "ep_closed" /\ pc' # pc) =>
        /\ parent_open = {}
        /\ pc' = "loop_end"
        /\ result' = "Ok"
        /\ waited' = <<>>
        /\ diag' = <<BackgroundNotice(child_process_ids[NSegments])>>
        /\ procs[child_process_ids[NSegments]].stage = NSegments - 1

\* C9: a background pipeline waits on none of its stages, and the one notice
\* it prints, once its channel descriptors are closed, names the last stage.
C9_BackgroundPipeline ==
    /\ []((LineIsPipeline /\ LineEndsWithMarker /\ pc # "dispatch") =>
            (waited = <<>> /\ (pc # "loop_end" => diag = <<>>)))
    /\ [][C9_Step]_vars

\* C9's case: a three-stage background pipeline has returned, stages running
C9_Witness ==
    /\ LineIsPipeline
    /\ LineEndsWithMarker
    /\ pc = "loop_end"
    /\ result = "Ok"
    /\ NSegments = 3
    /\ diag = <<BackgroundNotice(3)>>
    /\ \A p \in Pids : procs[p].pc = "running"

\* the last stage of the pipeline, once it is forked
LastStage == child_process_ids[NSegments]

\* C10: in a pipeline whose last raw segment ends with the marker, the marker
\* reaches neither the command nor a redirection path of the last stage, and
\* the marker is stripped exactly when the pipeline is flagged background.
C10_MarkerStrippedIffBackground ==
    (LineIsPipeline /\ pc # "dispatch" /\ Len(child_process_ids) = NSegments) =>
        LET rec == procs[LastStage]
            raw == Trim(Split(trimmed_line, "|")[NSegments])
            used == CountChar(rec.command, "&")
                    + (IF UsesOutput(rec) THEN CountChar(rec.output_file[1], "&") ELSE 0)
                    + (IF UsesInput(rec) THEN CountChar(rec.input_file[1], "&") ELSE 0)
        IN  /\ EndsWith(raw, "&") => used < CountChar(raw, "&")
            /\ StageStrips(commands, NSegments - 1) <=> PipelineIsBackground(commands)

\* ------------------------------------------------------------- parse_command alone
TextPieces == {<<"a">>, <<"b">>, <<" ">>, <<"|">>, <<"&">>, <<"<">>, <<">">>}

RECURSIVE TextsOf(_)
\* the concatenations of at most n pieces
TextsOf(n) ==
    IF n = 0 THEN {<<>>}
    ELSE LET shorter == TextsOf(n - 1)
         IN  shorter \cup {t \o q : t \in shorter, q \in TextPieces}

\* longer texts: both operators, an operator met twice, one left without a path
SampleTexts ==
    { <<"c", "m", "d", " ", "<", " ", "i", "n", " ", ">", " ", "o", "u", "t">>,
      <<"a", " ", ">", " ", "b", " ", "<", " ", "c">>,
      <<"a", " ", "<", " ", "b", " ", "<", " ", "c">>,
      <<"a", " ", "<", " ", "b", " ", "<">>,
      <<"a", " ", ">", " ", "b", " ", ">">>,
      <<"a", " ", "<", " ", "<", " ", "b", " ", "c">>,
      <<"a", " ", ">", " ", "<", " ", "b", " ", "c">>,
      <<" ", "a", " ", " ", "b", " ", "c", " ">> }

Texts == TextsOf(MaxTextPieces) \cup SampleTexts

\* a caller is about to call parse_command(parse_arg)
ParseInit ==
    /\ pc = "parse_call"
    /\ parse_arg \in Texts
    /\ parse_ret = None
    /\ input_line = <<>>
    /\ Fresh

\* the call returns
ParseCommand ==
    /\ pc = "parse_call"
    /\ parse_ret' = Some(parse_command(parse_arg))
    /\ pc' = "parse_return"
    /\ UNCHANGED <<parse_arg, input_line, commands, procs, pipe_ends, parent_open,
                   child_process_ids, waited, diag, result, status>>

ParseNext == ParseCommand

ParseSpec == ParseInit /\ [][ParseNext]_vars

\* the line read is the word exit, with only whitespace before and after it
LineIsExit ==
    \E a \in 0..Len(input_line) :
        /\ a + 4 <= Len(input_line)
        /\ SubSeq(input_line, a + 1, a + 4) = <<"e", "x", "i", "t">>
        /\ \A k \in 1..Len(input_line) :
               (k <= a \/ k > a + 4) => IsWhitespace(input_line[k])

\* C11: a line that is exit between whitespace spawns no process, makes
\* process_next_line return Exit, and main leaves the loop: the only step
\* after the return goes to the end of the program, and nothing is read
\* after it.
C11_ExitLeavesLoop ==
    /\ []((LineIsExit /\ pc # "dispatch") =>
            /\ pc \in {"loop_end", "exited"}
            /\ status = "Exit"
            /\ procs = <<>>
            /\ diag = <<>>)
    /\ [][(LineIsExit /\ pc = "loop_end") => pc' = "exited"]_vars
    /\ [][pc = "exited" => UNCHANGED vars]_vars

\* C11's case: main has left the loop on an exit line with spaces around it
C11_Witness ==
    /\ pc = "exited"
    /\ LineIsExit
    /\ Len(input_line) > 5
    /\ input_line[1] = " "
\* ------------------------------------------------------------- parse_command claims
\* c stands in text as a token of its own, whitespace or an end on both sides
HasToken(text, c) ==
    \E k \in 1..Len(text) :
        /\ text[k] = c
        /\ k = 1 \/ IsWhitespace(text[k - 1])
        /\ k = Len(text) \/ IsWhitespace(text[k + 1])

\* the last character of text that is not whitespace is the marker
TrailingMarker(text) ==
    \E k \in 1..Len(text) :
        text[k] = "&" /\ \A j \in (k + 1)..Len(text) : IsWhitespace(text[j])

\* no whitespace at either end, and single spaces between the tokens
SingleSpaced(text) ==
    \A k \in 1..Len(text) :
        IsWhitespace(text[k]) =>
            /\ text[k] = " "
            /\ k \notin {1, Len(text)}
            /\ ~IsWhitespace(text[k + 1])

\* what the call of parse_command returned
Returned == parse_ret[1]

\* the call has returned, for a text without operator tokens or marker
PlainTextParsed ==
    /\ pc = "parse_return"
    /\ ~HasToken(parse_arg, "<")
    /\ ~HasToken(parse_arg, ">")
    /\ ~HasToken(parse_arg, "|")
    /\ ~TrailingMarker(parse_arg)

\* C12 as stated: a text with no <, > or | token and no trailing marker is
\* returned unchanged as the command, with None for both paths.
C12_PlainTextUnchanged ==
    PlainTextParsed =>
        /\ Returned.command = parse_arg
        /\ Returned.input = None
        /\ Returned.output = None

\* C12 amended: for such a text the command is its tokens joined by single
\* spaces, which is the text itself when the text is single-spaced, and both
\* paths are None.
C12_PlainTextSingleSpaced ==
    PlainTextParsed =>
        /\ Returned.command = Join(SplitWhitespace(parse_arg))
        /\ SingleSpaced(Returned.command)
        /\ SingleSpaced(parse_arg) => Returned.command = parse_arg
        /\ Returned.input = None
        /\ Returned.output = None

\* C12's case: a text of three words with whitespace at the ends and a double
\* space inside has been parsed
C12_Witness ==
    /\ PlainTextParsed
    /\ Len(SplitWhitespace(parse_arg)) = 3
    /\ ~SingleSpaced(parse_arg)
    /\ Returned.command # parse_arg
    /\ Len(Returned.command) = 5
\* the last token of text is c on its own
LastTokenIs(text, c) ==
    \E k \in 1..Len(text) :
        /\ text[k] = c
        /\ k = 1 \/ IsWhitespace(text[k - 1])
        /\ \A j \in (k + 1)..Len(text) : IsWhitespace(text[j])

\* the number of places where c stands in text as a token of its own
CountToken(text, c) ==
    Cardinality({k \in 1..Len(text) :
                    /\ text[k] = c
                    /\ k = 1 \/ IsWhitespace(text[k - 1])
                    /\ k = Len(text) \/ IsWhitespace(text[k + 1])})

\* C13 as stated: when the last token of the text is a lone < (or >), the
\* input (or output) path returned is None and the command holds no such
\* operator.
C13_TrailingOperatorGivesNone ==
    pc = "parse_return" =>
        /\ LastTokenIs(parse_arg, "<") =>
               Returned.input = None /\ ~HasToken(Returned.command, "<")
        /\ LastTokenIs(parse_arg, ">") =>
               Returned.output = None /\ ~HasToken(Returned.command, ">")

\* C13 amended: the same, when that trailing operator is the only < (or >)
\* token of the text.
C13_OnlyTrailingOperatorGivesNone ==
    pc = "parse_return" =>
        /\ (LastTokenIs(parse_arg, "<") /\ CountToken(parse_arg, "<") = 1) =>
               Returned.input = None /\ ~HasToken(Returned.command, "<")
        /\ (LastTokenIs(parse_arg, ">") /\ CountToken(parse_arg, ">") = 1) =>
               Returned.output = None /\ ~HasToken(Returned.command, ">")

\* C13's case: a word followed by a lone <, the only one of the text, parsed
C13_Witness ==
    /\ pc = "parse_return"
    /\ LastTokenIs(parse_arg, "<")
    /\ CountToken(parse_arg, "<") = 1
    /\ Returned.command # <<>>
    /\ Returned.input = None
\* what each token of toks is in a left-to-right scan: the token after an
\* operator is its path whatever it is, a < or > that is not a path is an
\* operator, anything else is a word
Roles(toks) ==
    LET role[k \in 1..Len(toks)] ==
            IF k > 1 /\ role[k - 1] = "op" THEN "path"
            ELSE IF toks[k] \in {<<"<">>, <<">">>} THEN "op"
            ELSE "word"
    IN  role

\* the elements of the set of indices S, in increasing order
Ascending(S) ==
    [i \in 1..Cardinality(S) |->
        CHOOSE k \in S : Cardinality({j \in S : j < k}) = i - 1]

\* the path of operator op in toks: the token after its last occurrence as an
\* operator that has a token after it
PathOf(toks, op) ==
    LET at == {k \in 1..(Len(toks) - 1) : toks[k] = op /\ Roles(toks)[k] = "op"}
    IN  IF at = {} THEN None
        ELSE Some(toks[(CHOOSE k \in at : \A j \in at : j <= k) + 1])

\* C14: scanning the whitespace-separated tokens left to right, each < (or >)
\* met as an operator takes the next token, whatever it is, as the input (or
\* output) path; operators and paths are left out of the command, and every
\* other token is in the command once, in order, single spaces between.
C14_LeftToRightScan ==
    pc = "parse_return" =>
        LET toks == SplitWhitespace(parse_arg)
            words == Ascending({k \in 1..Len(toks) : Roles(toks)[k] = "word"})
        IN  /\ SplitWhitespace(Returned.command) = [i \in 1..Len(words) |-> toks[words[i]]]
            /\ SingleSpaced(Returned.command)
            /\ Returned.input = PathOf(toks, <<"<">>)
            /\ Returned.output = PathOf(toks, <<">">>)

\* C14's case: the text cmd < in > out has been parsed into its three parts
C14_Witness ==
    /\ pc = "parse_return"
    /\ parse_arg = <<"c", "m", "d", " ", "<", " ", "i", "n", " ", ">", " ", "o", "u", "t">>
    /\ Returned.command = <<"c", "m", "d">>
    /\ Returned.input = Some(<<"i", "n">>)
    /\ Returned.output = Some(<<"o", "u", "t">>)
\* ------------------------------------------------------------- wiring claims
\* process p is a pipeline child whose wiring code is behind it
AtImageReplacement(p) ==
    procs[p].kind = "pipeline" /\ procs[p].pc \in {"exec", "running"}

\* C15: when the child of stage i is at image replacement, slot 0 is the
\* readable end of channel i-1 if i > 0 and no channel end otherwise, slot 1
\* is the writable end of channel i if i < N-1 and no channel end otherwise,
\* whatever redirections the segment of that stage carries.
C15_PipelineWiring ==
    \A p \in Pids :
        AtImageReplacement(p) =>
            LET i == p - 1
                rec == procs[p]
            IN  /\ rec.slot0 = IF i > 0 THEN ReadEnd(i - 1)
                               ELSE IF rec.input_file # None
                               THEN File(rec.input_file[1]) ELSE Tty
                /\ rec.slot1 = IF i < NSegments - 1 THEN WriteEnd(i)
                               ELSE IF rec.output_file # None
                               THEN File(rec.output_file[1]) ELSE Tty

\* C15's case: both stages of a > a | a < a run, each with a redirection
\* that belongs to the other stage
C15_Witness ==
    /\ Len(procs) = 2
    /\ \A p \in Pids : procs[p].kind = "pipeline" /\ procs[p].pc = "running"
    /\ procs[1].output_file # None
    /\ procs[2].input_file # None
    /\ procs[1].slot1 = WriteEnd(0)
    /\ procs[2].slot0 = ReadEnd(0)
\* C16: a pipeline child at image replacement holds no raw channel descriptor,
\* both ends of every channel being closed, and its channel slots are wired;
\* from then on, as long as it lives, no step changes its slots or hands it a
\* raw descriptor, so the program it becomes reaches the channels through
\* slots 0 and 1 only.
C16_WiredBeforeImageReplacement ==
    /\ [](\A p \in Pids :
            AtImageReplacement(p) =>
                /\ procs[p].raw = {}
                /\ p > 1 => procs[p].slot0[1] = "pipe"
                /\ p < NSegments => procs[p].slot1[1] = "pipe")
    /\ [][\A p \in Pids :
            (AtImageReplacement(p) /\ p <= Len(procs') /\ procs'[p].pc # "exited") =>
                /\ procs'[p].raw = {}
                /\ procs'[p].slot0 = procs[p].slot0
                /\ procs'[p].slot1 = procs[p].slot1]_vars

\* C16's case: the middle child of three stages is about to call execvp, all
\* its raw descriptors closed, while the engine still holds every end
C16_Witness ==
    /\ Len(procs) >= 2
    /\ NSegments = 3
    /\ procs[2].kind = "pipeline"
    /\ procs[2].pc = "exec"
    /\ procs[2].raw = {}
    /\ procs[2].slot0 = ReadEnd(0)
    /\ procs[2].slot1 = WriteEnd(1)
    /\ parent_open = {ReadEnd(0), WriteEnd(0), ReadEnd(1), WriteEnd(1)}
\* C17: a child in which the open of a redirection file has failed is, in
\* every state from the failure on, out of the launch code: it is never at
\* the call of execvp nor running a program.
C17_OpenFailureNoImageReplacement ==
    \A p \in Pids :
        procs[p].fail = "open" => procs[p].pc \in {"escaped", "exited"}

\* C17's case: the last stage of a two-stage pipeline could not open its
\* output file, while the first stage runs its program
C17_Witness ==
    /\ Len(procs) = 2
    /\ procs[1].pc = "running"
    /\ procs[2].kind = "pipeline"
    /\ procs[2].output_file # None
    /\ procs[2].fail = "open"
    /\ procs[2].pc = "escaped"
\* execute_pipeline has returned with some stages forked, not all of them
PartlySpawned ==
    /\ LineIsPipeline
    /\ pc = "loop_end"
    /\ Len(child_process_ids) >= 1
    /\ Len(child_process_ids) < NSegments

\* C18: the step in which the fork of stage k >= 1 fails returns an error to
\* the dispatcher, forks nothing and leaves the processes of stages 0..k-1 as
\* they are; after it stages k..N-1 do not exist, no wait has been made, a
\* pipeline error is printed, and the next step of the engine is the next
\* iteration of the loop.
C18_ForkFailureLeavesStagesRunning ==
    /\ [][(pc = "ep_fork" /\ pc' = "loop_end" /\ Len(child_process_ids) >= 1) =>
            /\ procs' = procs
            /\ child_process_ids' = child_process_ids
            /\ result' = "Err"]_vars
    /\ [](PartlySpawned =>
            /\ Len(procs) = Len(child_process_ids)
            /\ waited = <<>>
            /\ result = "Err"
            /\ diag = <<"Pipeline error">>
            /\ status = "Continue")
    /\ [][(PartlySpawned /\ pc' # pc) => pc' = "prompt"]_vars

\* C18's case: the fork of the third of three stages has failed, and the two
\* stages forked before it run their programs
C18_Witness ==
    /\ PartlySpawned
    /\ NSegments = 3
    /\ Len(procs) = 2
    /\ procs[1].pc = "running"
    /\ procs[2].pc = "running"
\* C19: no process forked by run_command or execute_pipeline is ever back in
\* the caller of those functions, on the way to the prompt loop: each one
\* either runs the program it was forked for or has exited.
C19_OnlyEngineRunsLoop ==
    \A p \in Pids : procs[p].pc # "escaped"
\* C20: process_next_line returns Continue or Exit, never an error; Exit is
\* returned, and the loop left, only on a line that is exit between
\* whitespace; a line handled without an executor forks nothing; and once
\* main has the outcome of a line (a failed read included) the engine forks
\* nothing more for it and its next step is the next iteration, unless the
\* line was exit.
C20_LoopEndsOnlyOnExit ==
    /\ [](status \in {"none", "Continue", "Exit"})
    /\ []((status = "Exit" \/ pc = "exited") => (LineIsExit /\ status = "Exit"))
    /\ []((pc = "loop_end" /\ result = "none") => procs = <<>>)
    /\ [][pc = "loop_end" =>
            /\ Len(procs') <= Len(procs)
            /\ pc' # pc => pc' = IF LineIsExit THEN "exited" ELSE "prompt"]_vars

\* C20's case: run_command has returned an error, the dispatcher has printed
\* it and returned Continue
C20_Witness ==
    /\ pc = "loop_end"
    /\ ~LineIsExit
    /\ result = "Err"
    /\ diag = <<"Command error">>
    /\ status = "Continue"
====
